---- MODULE Spec2Model ----
(***************************************************************************)
(* A model of the RISC-V command-line interpreter's core (package riscv):  *)
(* the CPU state, the line decoder with its regular expressions, the       *)
(* instruction variants' Operate methods and the load / step / run entry   *)
(* points.                                                                 *)
(*                                                                         *)
(* 32-bit values (int32 registers, uint32 PC and addresses) are kept as    *)
(* their two's-complement representative in MinInt32..MaxInt32; every      *)
(* operation wraps modulo 2^32 as the Go code does.  An unsigned reading   *)
(* of a negative representative r is r + 2^32.                             *)
(***************************************************************************)
EXTENDS Integers, Sequences, FiniteSets, TLC

\* ------------------------------------------------------------------------
\* Bounds of the model
\* ------------------------------------------------------------------------

\* The memory size handed to NewCPU.
MemorySize == 16

\* At most this many LoadInstructions calls in one behaviour.
MaxLoads == 2

\* At most this many RunNextInstruction calls (direct or inside RunProgram).
MaxSteps == 6

\* ------------------------------------------------------------------------
\* 32-bit arithmetic
\* ------------------------------------------------------------------------

MaxInt32 == 2147483647

MinInt32 == -MaxInt32 - 1

\* a + b modulo 2^32 (Go's int32 / uint32 addition).
Add32(a, b) ==
    IF b >= 0
    THEN IF a > MaxInt32 - b THEN (a + MinInt32) + (b + MinInt32) ELSE a + b
    ELSE IF a < MinInt32 - b THEN (a - MinInt32) + (b - MinInt32) ELSE a + b

Neg32(a) == IF a = MinInt32 THEN MinInt32 ELSE 0 - a

Sub32(a, b) == Add32(a, Neg32(b))

\* The 32 bits of a, least significant first.
Bits32(a) ==
    LET low == IF a >= 0 THEN a ELSE a - MinInt32
    IN  [i \in 1..32 |-> IF i = 32 THEN (IF a < 0 THEN 1 ELSE 0)
                                   ELSE (low \div (2 ^ (i - 1))) % 2]

RECURSIVE SumBits(_, _)
SumBits(bs, i) ==
    IF i > 31 THEN 0 ELSE bs[i] * (2 ^ (i - 1)) + SumBits(bs, i + 1)

FromBits32(bs) ==
    IF bs[32] = 1 THEN SumBits(bs, 1) + MinInt32 ELSE SumBits(bs, 1)

RECURSIVE MulBits(_, _, _)
MulBits(a, bs, i) ==
    IF i > 32 THEN 0
    ELSE Add32(IF bs[i] = 1 THEN a ELSE 0, MulBits(Add32(a, a), bs, i + 1))

\* a * b modulo 2^32.
Mul32(a, b) == MulBits(a, Bits32(b), 1)

Abs32(a) == IF a < 0 THEN 0 - a ELSE a

\* Go's truncated division, b # 0; MinInt32 / -1 wraps to MinInt32.
Div32(a, b) ==
    IF b = MinInt32 THEN (IF a = MinInt32 THEN 1 ELSE 0)
    ELSE IF a = MinInt32
    THEN IF b = 1 \/ b = -1 THEN MinInt32
         ELSE LET d == Abs32(b)
                  q == (MaxInt32 \div d) + (IF MaxInt32 % d = d - 1 THEN 1 ELSE 0)
              IN  IF b > 0 THEN 0 - q ELSE q
    ELSE LET q == Abs32(a) \div Abs32(b)
         IN  IF (a < 0) = (b < 0) THEN q ELSE 0 - q

\* Go's remainder: a - b * (a / b).
Rem32(a, b) == Sub32(a, Mul32(b, Div32(a, b)))

\* Bitwise operations.
And32(a, b) ==
    LET x == Bits32(a) y == Bits32(b)
    IN  FromBits32([i \in 1..32 |-> IF x[i] = 1 /\ y[i] = 1 THEN 1 ELSE 0])

Or32(a, b) ==
    LET x == Bits32(a) y == Bits32(b)
    IN  FromBits32([i \in 1..32 |-> IF x[i] = 1 \/ y[i] = 1 THEN 1 ELSE 0])

Xor32(a, b) ==
    LET x == Bits32(a) y == Bits32(b)
    IN  FromBits32([i \in 1..32 |-> IF x[i] # y[i] THEN 1 ELSE 0])

\* Go shifts with a non-negative count; a count of 32 or more shifts
\* every bit out.
Sll32(a, n) ==
    LET x == Bits32(a)
    IN  IF n >= 32 THEN 0
        ELSE FromBits32([i \in 1..32 |-> IF i - n >= 1 THEN x[i - n] ELSE 0])

Srl32(a, n) ==
    LET x == Bits32(a)
    IN  IF n >= 32 THEN 0
        ELSE FromBits32([i \in 1..32 |-> IF i + n <= 32 THEN x[i + n] ELSE 0])

Sra32(a, n) ==
    LET x == Bits32(a)
    IN  IF n >= 32 THEN (IF a < 0 THEN -1 ELSE 0)
        ELSE FromBits32([i \in 1..32 |-> IF i + n <= 32 THEN x[i + n] ELSE x[32]])

\* Unsigned comparison of two 32-bit values.
ULt32(a, b) == IF (a >= 0) = (b >= 0) THEN a < b ELSE b < 0

\* Byte k (0 = least significant) of a 32-bit value.
ByteOf(v, k) ==
    LET x == Bits32(v)
    IN  x[8 * k + 1] + 2 * x[8 * k + 2] + 4 * x[8 * k + 3] + 8 * x[8 * k + 4]
        + 16 * x[8 * k + 5] + 32 * x[8 * k + 6] + 64 * x[8 * k + 7]
        + 128 * x[8 * k + 8]

\* The 32-bit value whose bytes, least significant first, are b0..b3.
FromBytes(b0, b1, b2, b3) ==
    LET top == IF b3 >= 128 THEN b3 - 256 ELSE b3
    IN  b0 + 256 * b1 + 65536 * b2 + 16777216 * top

\* ------------------------------------------------------------------------
\* Text
\* ------------------------------------------------------------------------

Char(s, i) == SubSeq(s, i, i)

DigitChars == "0123456789"

LowerChars == "abcdefghijklmnopqrstuvwxyz"

UpperChars == "ABCDEFGHIJKLMNOPQRSTUVWXYZ"

CharsOf(s) == {Char(s, i) : i \in 1..Len(s)}

\* [0-9], [a-z0-9], \w and \s of Go's regexp syntax.
Digit == CharsOf(DigitChars)

LowerOrDigit == CharsOf(LowerChars) \cup Digit

Word == CharsOf(LowerChars) \cup CharsOf(UpperChars) \cup Digit \cup {"_"}

Space == {" ", "\t", "\n", "\f", "\r"}

\* The index after the longest run of characters of class C starting at i.
RECURSIVE RunEnd(_, _, _)
RunEnd(s, i, C) ==
    IF i <= Len(s) /\ Char(s, i) \in C THEN RunEnd(s, i + 1, C) ELSE i

RECURSIVE RunStart(_, _, _)
RunStart(s, i, C) ==
    IF i >= 1 /\ Char(s, i) \in C THEN RunStart(s, i - 1, C) ELSE i

\* strings.TrimSpace
TrimSpace(s) == SubSeq(s, RunEnd(s, 1, Space), RunStart(s, Len(s), Space))

\* ------------------------------------------------------------------------
\* Regular expressions (package regexp), as far as the program's patterns go:
\* a pattern is a sequence of elements, each a character class (or its
\* complement) taken once, optionally, or greedily one-or-more / zero-or-more
\* times; a group is a pair << first element, last element >>.
\* ------------------------------------------------------------------------

One(C) == [chars |-> C, negated |-> FALSE, min |-> 1, many |-> FALSE]

Opt(C) == [chars |-> C, negated |-> FALSE, min |-> 0, many |-> FALSE]

Plus(C) == [chars |-> C, negated |-> FALSE, min |-> 1, many |-> TRUE]

Star(C) == [chars |-> C, negated |-> FALSE, min |-> 0, many |-> TRUE]

\* "." : any character but a newline.
Dot(el) == [el EXCEPT !.chars = {"\n"}, !.negated = TRUE]

Least(S) == CHOOSE i \in S : \A j \in S : i <= j

InClass(c, el) == (c \in el.chars) # el.negated

\* The number of characters from i on that element el can take at most.
RECURSIVE MaxTake(_, _, _)
MaxTake(s, i, el) ==
    IF i <= Len(s) /\ InClass(Char(s, i), el)
    THEN IF el.many THEN 1 + MaxTake(s, i + 1, el) ELSE 1
    ELSE 0

\* A match of pattern pat starting at i: ends[k] is the index after the text
\* element k took. Each element takes the most characters that still lets
\* the rest of the pattern match (greedy, backtracking): MatchTaking tries
\* n characters for the first element, then n - 1, down to its minimum.
RECURSIVE MatchAt(_, _, _)
RECURSIVE MatchTaking(_, _, _, _)
MatchAt(s, i, pat) ==
    IF pat = << >> THEN [ok |-> TRUE, ends |-> << >>]
    ELSE MatchTaking(s, i, pat, MaxTake(s, i, Head(pat)))

MatchTaking(s, i, pat, n) ==
    IF n < Head(pat).min THEN [ok |-> FALSE, ends |-> << >>]
    ELSE LET rest == MatchAt(s, i + n, Tail(pat))
         IN  IF rest.ok THEN [ok |-> TRUE, ends |-> << i + n >> \o rest.ends]
             ELSE MatchTaking(s, i, pat, n - 1)

\* The text elements first..last of a match took.
Group(s, i, ends, first, last) ==
    SubSeq(s, IF first = 1 THEN i ELSE ends[first - 1], ends[last] - 1)

\* The whole match and the groups of the match starting at i.
Submatches(s, i, ends, groups) ==
    << Group(s, i, ends, 1, Len(ends)) >>
    \o [g \in 1..Len(groups) |-> Group(s, i, ends, groups[g][1], groups[g][2])]

\* regexp.FindStringSubmatch: the submatches of the leftmost match, << >>
\* when there is none (element k + 1 here is Go's element k).
FindStringSubmatch(s, pat, groups) ==
    LET starts == {i \in 1..Len(s) : MatchAt(s, i, pat).ok}
    IN  IF starts = {} THEN << >>
        ELSE Submatches(s, Least(starts), MatchAt(s, Least(starts), pat).ends, groups)

\* ------------------------------------------------------------------------
\* The decoder's regular expressions (DecodeInstr, LoadInstructions)
\* ------------------------------------------------------------------------

\* ^(\w+) with FindString: the match at the start of the text, or "".
firstTokenRe(s) ==
    IF MatchAt(s, 1, << Plus(Word) >>).ok
    THEN Group(s, 1, MatchAt(s, 1, << Plus(Word) >>).ends, 1, 1)
    ELSE ""

\* (\w+)\s+(\w+)\s*,\s*(\w+)\s*,\s*(\-?\.?\w+)
threePtRe(s) ==
    FindStringSubmatch(s,
        << Plus(Word), Plus(Space), Plus(Word), Star(Space), One({","}),
           Star(Space), Plus(Word), Star(Space), One({","}), Star(Space),
           Opt({"-"}), Opt({"."}), Plus(Word) >>,
        << <<1, 1>>, <<3, 3>>, <<7, 7>>, <<11, 13>> >>)

\* (\w+)\s+(\w+)\s*,\s*(\w+)
twoPtImmRe(s) ==
    FindStringSubmatch(s,
        << Plus(Word), Plus(Space), Plus(Word), Star(Space), One({","}),
           Star(Space), Plus(Word) >>,
        << <<1, 1>>, <<3, 3>>, <<7, 7>> >>)

\* (\w+)\s+(\w+)\s*,\s*(-?[0-9]+)\(([a-z0-9]+)\)
loadStoreRe(s) ==
    FindStringSubmatch(s,
        << Plus(Word), Plus(Space), Plus(Word), Star(Space), One({","}),
           Star(Space), Opt({"-"}), Plus(Digit), One({"("}),
           Plus(LowerOrDigit), One({")"}) >>,
        << <<1, 1>>, <<3, 3>>, <<7, 8>>, <<10, 10>> >>)

\* (\w)\s+(.?\w+)
jumpRe(s) ==
    FindStringSubmatch(s,
        << One(Word), Plus(Space), Dot(Opt({})), Plus(Word) >>,
        << <<1, 1>>, <<3, 4>> >>)

\* (.+):
labelRe(s) ==
    FindStringSubmatch(s, << Dot(Plus({})), One({":"}) >>, << <<1, 1>> >>)

\* .global\s(\w+)
globalRe(s) ==
    FindStringSubmatch(s,
        << Dot(One({})), One({"g"}), One({"l"}), One({"o"}), One({"b"}),
           One({"a"}), One({"l"}), One(Space), Plus(Word) >>,
        << <<9, 9>> >>)

\* ------------------------------------------------------------------------
\* strconv.Atoi
\* ------------------------------------------------------------------------

DigitVal(c) == (CHOOSE k \in 1..10 : Char(DigitChars, k) = c) - 1

\* 10 * x modulo 2^32.
Mul10(x) ==
    LET x2 == Add32(x, x)
        x4 == Add32(x2, x2)
        x8 == Add32(x4, x4)
    IN  Add32(x8, x2)

\* The value, modulo 2^32, of the first n digits of ds.
RECURSIVE AtoiAcc(_, _)
AtoiAcc(ds, n) ==
    IF n = 0 THEN 0
    ELSE Add32(Mul10(AtoiAcc(ds, n - 1)), DigitVal(Char(ds, n)))

\* Whether the digit string a is at most the digit string b of equal length.
RECURSIVE DigitsLeq(_, _, _)
DigitsLeq(a, b, i) ==
    IF i > Len(a) THEN TRUE
    ELSE IF DigitVal(Char(a, i)) < DigitVal(Char(b, i)) THEN TRUE
    ELSE IF DigitVal(Char(a, i)) > DigitVal(Char(b, i)) THEN FALSE
    ELSE DigitsLeq(a, b, i + 1)

\* The largest magnitudes of Go's 64-bit int.
MaxInt64Digits == "9223372036854775807"

MinInt64Digits == "9223372036854775808"

\* strconv.Atoi(s): ok is FALSE on a syntax or range error; val is the low
\* 32 bits of the parsed int (what int32(imm) and uint32(imm) keep).
Atoi(s) ==
    LET signed == Len(s) >= 1 /\ Char(s, 1) \in {"+", "-"}
        neg    == Len(s) >= 1 /\ Char(s, 1) = "-"
        ds     == IF signed THEN SubSeq(s, 2, Len(s)) ELSE s
        sig    == SubSeq(ds, RunEnd(ds, 1, {"0"}), Len(ds))
        limit  == IF neg THEN MinInt64Digits ELSE MaxInt64Digits
        syntax == Len(ds) >= 1 /\ \A i \in 1..Len(ds) : Char(ds, i) \in Digit
        range  == \/ Len(sig) < Len(limit)
                  \/ Len(sig) = Len(limit) /\ DigitsLeq(sig, limit, 1)
        mag    == AtoiAcc(sig, Len(sig))
    IN  IF syntax /\ range
        THEN [ok |-> TRUE, val |-> IF neg THEN Neg32(mag) ELSE mag]
        ELSE [ok |-> FALSE, val |-> 0]

\* ------------------------------------------------------------------------
\* Register names and immediates
\* ------------------------------------------------------------------------

\* ABI name of register i at index i + 1.
AbiNames ==
    << "zero", "ra", "sp", "gp", "tp", "t0", "t1", "t2", "s0", "s1",
       "a0", "a1", "a2", "a3", "a4", "a5", "a6", "a7",
       "s2", "s3", "s4", "s5", "s6", "s7", "s8", "s9", "s10", "s11",
       "t3", "t4", "t5", "t6" >>

XName(i) == "x" \o ToString(i)

abiToRegister ==
    [n \in {AbiNames[i] : i \in 1..32} \cup {XName(i) : i \in 0..31} \cup {"fp"} |->
        IF n = "fp" THEN 8
        ELSE CHOOSE i \in 0..31 : AbiNames[i + 1] = n \/ XName(i) = n]

\* getRegisterNumber panics on a name the table lacks.
ValidRegister(abiName) == abiName \in DOMAIN abiToRegister

getRegisterNumber(abiName) == abiToRegister[abiName]

\* parseImm panics when Atoi fails and keeps the low 32 bits otherwise.
ValidImm(imm_str) == Atoi(imm_str).ok

parseImm(imm_str) == Atoi(imm_str).val

\* ------------------------------------------------------------------------
\* Instruction variants and their parsers
\* ------------------------------------------------------------------------

threePtInstrTypes ==
    {"add", "sub", "mul", "div", "rem", "and", "or", "xor", "sll", "srl", "sra"}

threePtImmInstrTypes == {"addi", "andi", "ori", "xori", "slli", "srli", "srai"}

loadImmInstrTypes == {"li", "lui", "auipc"}

loadInstrTypes == {"lw", "lh", "lhu", "lb", "lbu"}

storeInstrTypes == {"sw", "sh", "sb"}

branchThreeInstrTypes ==
    {"beq", "bne", "blt", "bltu", "bgt", "bgtu", "ble", "bleu", "bge", "bgeu"}

branchTwoInstrTypes == {"beqz", "bnez", "bltz", "bgtz", "blez", "bgez"}

setInstrTypes == {"slt", "sltu"}

setImmInstrTypes == {"slti", "sltiu"}

\* The keys of the operation tables.
instrToThreePtOpKeys == threePtInstrTypes

instrToThreePtImmOpKeys == threePtImmInstrTypes

instrToLoadImmOpKeys == loadImmInstrTypes

instrToLoadOpKeys == loadInstrTypes

instrToStoreOpKeys == storeInstrTypes

instrToBranchThreeOpKeys == branchThreeInstrTypes

instrToBranchTwoOpKeys == {"beqz", "bnez", "bltz", "bgtz", "bgez"}

instrToSetOpKeys == setInstrTypes

instrToSetImmOpKeys == setImmInstrTypes

\* The decoder's results: an instruction, or a panic raised while parsing.
NoOp(reason) == [type |-> "NoOp", reason |-> reason]

Panic(reason) == [type |-> "Panic", reason |-> reason]

\* The parsers take Go's tokens[1:], so tokens[k] here is Go's tokens[k - 1].
parseThreePt(tokens) ==
    IF tokens[1] \notin instrToThreePtOpKeys THEN Panic("invalid operation")
    ELSE IF ~(ValidRegister(tokens[2]) /\ ValidRegister(tokens[3])
              /\ ValidRegister(tokens[4]))
    THEN Panic("invalid register")
    ELSE [type |-> "InstrThreePt", rd |-> getRegisterNumber(tokens[2]),
          rs1 |-> getRegisterNumber(tokens[3]),
          rs2 |-> getRegisterNumber(tokens[4]), op |-> tokens[1]]

parseThreePtImm(tokens) ==
    IF tokens[1] \notin instrToThreePtImmOpKeys THEN NoOp("Invalid Operation")
    ELSE IF ~(ValidRegister(tokens[2]) /\ ValidRegister(tokens[3]))
    THEN Panic("invalid register")
    ELSE IF ~ValidImm(tokens[4]) THEN Panic("immediate parse error")
    ELSE [type |-> "InstrThreePtImm", rd |-> getRegisterNumber(tokens[2]),
          rs1 |-> getRegisterNumber(tokens[3]), imm |-> parseImm(tokens[4]),
          op |-> tokens[1]]

parseLoadImm(tokens) ==
    IF tokens[1] \notin instrToLoadImmOpKeys THEN NoOp("Invalid Operation")
    ELSE IF ~ValidRegister(tokens[2]) THEN Panic("invalid register")
    ELSE IF ~ValidImm(tokens[3]) THEN Panic("immediate parse error")
    ELSE [type |-> "LoadImmInstr", rd |-> getRegisterNumber(tokens[2]),
          imm |-> parseImm(tokens[3]), op |-> tokens[1]]

parseLoad(tokens) ==
    IF tokens[1] \notin instrToLoadOpKeys THEN NoOp("Invalid Operation")
    ELSE IF ~(ValidRegister(tokens[2]) /\ ValidRegister(tokens[4]))
    THEN Panic("invalid register")
    ELSE IF ~ValidImm(tokens[3]) THEN Panic("immediate parse error")
    ELSE [type |-> "LoadInstr", rd |-> getRegisterNumber(tokens[2]),
          rs1 |-> getRegisterNumber(tokens[4]), imm |-> parseImm(tokens[3]),
          op |-> tokens[1]]

parseStore(tokens) ==
    IF tokens[1] \notin instrToStoreOpKeys THEN NoOp("Invalid Operation")
    ELSE IF ~(ValidRegister(tokens[4]) /\ ValidRegister(tokens[2]))
    THEN Panic("invalid register")
    ELSE IF ~ValidImm(tokens[3]) THEN Panic("immediate parse error")
    ELSE [type |-> "StoreInstr", rs1 |-> getRegisterNumber(tokens[4]),
          rs2 |-> getRegisterNumber(tokens[2]), imm |-> parseImm(tokens[3]),
          op |-> tokens[1]]

parseBranchThree(tokens) ==
    IF tokens[1] \notin instrToBranchThreeOpKeys THEN NoOp("Invalid Operation")
    ELSE IF ~(ValidRegister(tokens[2]) /\ ValidRegister(tokens[3]))
    THEN Panic("invalid register")
    ELSE [type |-> "BranchThreeInstr", rs1 |-> getRegisterNumber(tokens[2]),
          rs2 |-> getRegisterNumber(tokens[3]), destination |-> tokens[4],
          op |-> tokens[1]]

parseBranchTwo(tokens) ==
    IF tokens[1] \notin instrToBranchTwoOpKeys THEN NoOp("Invalid Operation")
    ELSE IF ~ValidRegister(tokens[2]) THEN Panic("invalid register")
    ELSE [type |-> "BranchTwoInstr", rs1 |-> getRegisterNumber(tokens[2]),
          destination |-> tokens[3], op |-> tokens[1]]

\* parseJal and parseJalr are handed the whole match, so tokens[k] here is
\* Go's tokens[k - 1] of that whole match: Go's tokens[1] is the first group.
parseJal(tokens) ==
    IF ~ValidRegister(tokens[2]) THEN Panic("invalid register")
    ELSE [type |-> "JumpAndLinkInstr", rd |-> getRegisterNumber(tokens[2]),
          destination |-> tokens[3]]

parseJalr(tokens) ==
    IF ~(ValidRegister(tokens[2]) /\ ValidRegister(tokens[3]))
    THEN Panic("invalid register")
    ELSE IF ~ValidImm(tokens[4]) THEN Panic("immediate parse error")
    ELSE [type |-> "JumpAndLinkRInstr", rd |-> getRegisterNumber(tokens[2]),
          rs1 |-> getRegisterNumber(tokens[3]), imm |-> parseImm(tokens[4])]

parseSet(tokens) ==
    IF tokens[1] \notin instrToSetOpKeys THEN NoOp("Invalid Operation")
    ELSE IF ~(ValidRegister(tokens[2]) /\ ValidRegister(tokens[3])
              /\ ValidRegister(tokens[4]))
    THEN Panic("invalid register")
    ELSE [type |-> "SetInstr", rd |-> getRegisterNumber(tokens[2]),
          rs1 |-> getRegisterNumber(tokens[3]),
          rs2 |-> getRegisterNumber(tokens[4]), op |-> tokens[1]]

parseSetImm(tokens) ==
    IF tokens[1] \notin instrToSetImmOpKeys THEN NoOp("Invalid Operation")
    ELSE IF ~(ValidRegister(tokens[2]) /\ ValidRegister(tokens[3]))
    THEN Panic("invalid register")
    ELSE IF ~ValidImm(tokens[4]) THEN Panic("immediate parse error")
    ELSE [type |-> "SetImmInstr", rd |-> getRegisterNumber(tokens[2]),
          rs1 |-> getRegisterNumber(tokens[3]), imm |-> parseImm(tokens[4]),
          op |-> tokens[1]]

ParseJump(tokens) == [type |-> "JumpInstr", destination |-> tokens[3]]

ParseCall(tokens) ==
    [type |-> "JumpAndLinkInstr", rd |-> abiToRegister["ra"],
     destination |-> tokens[3]]

ParseJr(tokens) ==
    IF ~ValidRegister(tokens[3]) THEN Panic("invalid register")
    ELSE [type |-> "JumpAndLinkRInstr", rd |-> 0,
          rs1 |-> getRegisterNumber(tokens[3]), imm |-> 0]

\* The jalr branch discards what parseJalr returns and falls through to the
\* final NoOp; only a panic inside parseJalr shows.
ParseJalrDiscarded(tokens) ==
    IF parseJalr(tokens).type = "Panic" THEN parseJalr(tokens) ELSE NoOp("")

ParseMv(tokens) ==
    IF ~(ValidRegister(tokens[3]) /\ ValidRegister(tokens[4]))
    THEN Panic("invalid register")
    ELSE [type |-> "InstrThreePtImm", rd |-> getRegisterNumber(tokens[3]),
          rs1 |-> getRegisterNumber(tokens[4]), imm |-> 0, op |-> "mv"]

DecodeInstr(instr_str_raw) ==
    LET instr_str      == TrimSpace(instr_str_raw)
        instrTypeToken == firstTokenRe(instr_str)
    IN  IF instrTypeToken \in threePtInstrTypes
        THEN IF threePtRe(instr_str) = << >> THEN NoOp("")
             ELSE parseThreePt(Tail(threePtRe(instr_str)))
        ELSE IF instrTypeToken \in threePtImmInstrTypes
        THEN IF threePtRe(instr_str) = << >> THEN NoOp("")
             ELSE parseThreePtImm(Tail(threePtRe(instr_str)))
        ELSE IF instrTypeToken \in loadImmInstrTypes
        THEN IF twoPtImmRe(instr_str) = << >> THEN NoOp("")
             ELSE parseLoadImm(Tail(twoPtImmRe(instr_str)))
        ELSE IF instrTypeToken \in loadInstrTypes
        THEN IF loadStoreRe(instr_str) = << >> THEN NoOp("")
             ELSE parseLoad(Tail(loadStoreRe(instr_str)))
        ELSE IF instrTypeToken \in storeInstrTypes
        THEN IF loadStoreRe(instr_str) = << >> THEN NoOp("")
             ELSE parseStore(Tail(loadStoreRe(instr_str)))
        ELSE IF instrTypeToken \in branchThreeInstrTypes
        THEN IF threePtRe(instr_str) = << >> THEN NoOp("")
             ELSE parseBranchThree(Tail(threePtRe(instr_str)))
        ELSE IF instrTypeToken \in branchTwoInstrTypes
        THEN IF twoPtImmRe(instr_str) = << >> THEN NoOp("")
             ELSE parseBranchTwo(Tail(twoPtImmRe(instr_str)))
        ELSE IF instrTypeToken \in setInstrTypes
        THEN IF threePtRe(instr_str) = << >> THEN NoOp("")
             ELSE parseSet(Tail(threePtRe(instr_str)))
        ELSE IF instrTypeToken \in setImmInstrTypes
        THEN IF threePtRe(instr_str) = << >> THEN NoOp("")
             ELSE parseSetImm(Tail(threePtRe(instr_str)))
        ELSE IF instrTypeToken = "j"
        THEN IF jumpRe(instr_str) = << >> THEN NoOp("")
             ELSE ParseJump(jumpRe(instr_str))
        ELSE IF instrTypeToken = "call"
        THEN IF jumpRe(instr_str) = << >> THEN NoOp("")
             ELSE ParseCall(jumpRe(instr_str))
        ELSE IF instrTypeToken = "jr"
        THEN IF jumpRe(instr_str) = << >> THEN NoOp("")
             ELSE ParseJr(jumpRe(instr_str))
        ELSE IF instrTypeToken = "jal"
        THEN IF twoPtImmRe(instr_str) = << >> THEN NoOp("")
             ELSE parseJal(twoPtImmRe(instr_str))
        ELSE IF instrTypeToken = "jalr"
        THEN IF threePtRe(instr_str) = << >> THEN NoOp("")
             ELSE ParseJalrDiscarded(threePtRe(instr_str))
        ELSE IF instrTypeToken = "mv"
        THEN IF twoPtImmRe(instr_str) = << >> THEN NoOp("")
             ELSE ParseMv(twoPtImmRe(instr_str))
        ELSE NoOp("")

\* ------------------------------------------------------------------------
\* The operation tables
\* ------------------------------------------------------------------------

\* instrToThreePtOp; integer division by zero and a negative shift count
\* are Go run-time panics.
ThreePtOpPanics(op, a, b) ==
    \/ op \in {"div", "rem"} /\ b = 0
    \/ op \in {"sll", "srl", "sra"} /\ b < 0

instrToThreePtOp(op, a, b) ==
    CASE op = "add" -> Add32(a, b)
      [] op = "sub" -> Sub32(a, b)
      [] op = "mul" -> Mul32(a, b)
      [] op = "div" -> Div32(a, b)
      [] op = "rem" -> Rem32(a, b)
      [] op = "and" -> And32(a, b)
      [] op = "or"  -> Or32(a, b)
      [] op = "xor" -> Xor32(a, b)
      [] op = "sll" -> Sll32(a, b)
      [] op = "srl" -> Srl32(a, b)
      [] op = "sra" -> Sra32(a, b)

\* instrToThreePtImmOp, and the closure the mv branch builds.
ThreePtImmOpPanics(op, a, b) == op \in {"slli", "srli", "srai"} /\ b < 0

instrToThreePtImmOp(op, a, b) ==
    CASE op = "addi" -> Add32(a, b)
      [] op = "andi" -> And32(a, b)
      [] op = "ori"  -> Or32(a, b)
      [] op = "xori" -> Xor32(a, b)
      [] op = "slli" -> Sll32(a, b)
      [] op = "srli" -> Srl32(a, b)
      [] op = "srai" -> Sra32(a, b)
      [] op = "mv"   -> a

instrToLoadImmOp(op, cpu, imm) ==
    CASE op = "li"    -> imm
      [] op = "lui"   -> Sll32(imm, 12)
      [] op = "auipc" -> Add32(cpu.PC, Sll32(imm, 12))

instrToSetOp(op, rs1, rs2) ==
    CASE op = "slt"  -> rs1 < rs2
      [] op = "sltu" -> ULt32(rs1, rs2)

instrToSetImmOp(op, rs1, imm) ==
    CASE op = "slti"  -> rs1 < imm
      [] op = "sltiu" -> ULt32(rs1, imm)

BranchThreeCond(op, rs1, rs2) ==
    CASE op = "beq"  -> rs1 = rs2
      [] op = "bne"  -> rs1 # rs2
      [] op = "blt"  -> rs1 < rs2
      [] op = "bltu" -> ULt32(rs1, rs2)
      [] op = "bgt"  -> rs1 > rs2
      [] op = "bgtu" -> ULt32(rs2, rs1)
      [] op = "ble"  -> rs1 <= rs2
      [] op = "bleu" -> ~ULt32(rs2, rs1)
      [] op = "bge"  -> rs1 >= rs2
      [] op = "bgeu" -> ~ULt32(rs1, rs2)

BranchTwoCond(op, rs1) ==
    CASE op = "beqz" -> rs1 = 0
      [] op = "bnez" -> rs1 # 0
      [] op = "bltz" -> rs1 < 0
      [] op = "bgtz" -> rs1 > 0
      [] op = "bgez" -> rs1 >= 0

\* ------------------------------------------------------------------------
\* Memory
\* ------------------------------------------------------------------------
\* A cpu is a record [PC, Registers, Memory, MemoryHistory, Labels, panic]:
\* the fields of CPU an instruction reads or writes, and whether a panic
\* has been raised.  Memory is a function on 0..len-1.

MemLen(cpu) == Cardinality(DOMAIN cpu.Memory)

\* checkMemoryAccess: address + 4 is computed in uint32 and may wrap.
checkMemoryAccess(cpu, address) ==
    LET end == Add32(address, 4)
    IN  end >= 0 /\ end <= MemLen(cpu)

\* Whether cpu.Memory[address:] holds n bytes; slicing or indexing panics
\* otherwise.
InMemory(cpu, address, n) == address >= 0 /\ address <= MemLen(cpu) - n

\* One line of MemoryHistory: the format string's text and its two values.
HistoryEntry(text, value, address) ==
    [text |-> text, value |-> value, address |-> address]

\* Prepend adding the entry at the end.
PrependAtEnd(entry, history) == history \o << entry >>

Prepend(entry, history) == << entry >> \o history

\* The loads yield [value, cpu]; a rejected access yields 0 and no entry.
loadWord(cpu, address) ==
    IF ~checkMemoryAccess(cpu, address) THEN [value |-> 0, cpu |-> cpu]
    ELSE IF ~InMemory(cpu, address, 4)
    THEN [value |-> 0, cpu |-> [cpu EXCEPT !.panic = TRUE]]
    ELSE LET value == FromBytes(cpu.Memory[address], cpu.Memory[address + 1],
                                cpu.Memory[address + 2], cpu.Memory[address + 3])
         IN  [value |-> value,
              cpu |-> [cpu EXCEPT !.MemoryHistory =
                          Prepend(HistoryEntry("Loaded word (%d) from  %d",
                                               value, address), @)]]

\* uint16
loadHalf(cpu, address) ==
    IF ~checkMemoryAccess(cpu, address) THEN [value |-> 0, cpu |-> cpu]
    ELSE IF ~InMemory(cpu, address, 2)
    THEN [value |-> 0, cpu |-> [cpu EXCEPT !.panic = TRUE]]
    ELSE LET value == cpu.Memory[address] + 256 * cpu.Memory[address + 1]
         IN  [value |-> value,
              cpu |-> [cpu EXCEPT !.MemoryHistory =
                          Prepend(HistoryEntry("Loaded half (%d) from  %d",
                                               value, address), @)]]

\* uint8
loadByte(cpu, address) ==
    IF ~checkMemoryAccess(cpu, address) THEN [value |-> 0, cpu |-> cpu]
    ELSE IF ~InMemory(cpu, address, 1)
    THEN [value |-> 0, cpu |-> [cpu EXCEPT !.panic = TRUE]]
    ELSE LET value == cpu.Memory[address]
         IN  [value |-> value,
              cpu |-> [cpu EXCEPT !.MemoryHistory =
                          Prepend(HistoryEntry("Loaded byte (%d) from  %d",
                                               value, address), @)]]

\* instrToLoadOp: int32(uint16) and int32(uint8) zero-extend.
instrToLoadOp(op, cpu, rs1_val, imm) ==
    CASE op = "lw"  -> loadWord(cpu, Add32(rs1_val, imm))
      [] op = "lh"  -> loadHalf(cpu, Add32(rs1_val, imm))
      [] op = "lhu" -> loadHalf(cpu, Add32(rs1_val, imm))
      [] op = "lb"  -> loadByte(cpu, Add32(rs1_val, imm))
      [] op = "lbu" -> loadByte(cpu, Add32(rs1_val, imm))

\* storeWord writing the most significant byte first.
storeWordBigEndian(cpu, address, value) ==
    IF ~checkMemoryAccess(cpu, address) THEN cpu
    ELSE LET logged == [cpu EXCEPT !.MemoryHistory =
                           Prepend(HistoryEntry("Stored word (%d) to address %d",
                                                value, address), @)]
         IN  IF ~InMemory(cpu, address, 4) THEN [logged EXCEPT !.panic = TRUE]
             ELSE [logged EXCEPT !.Memory =
                      [a \in DOMAIN @ |->
                          IF a >= address /\ a <= address + 3
                          THEN ByteOf(value, 3 - (a - address)) ELSE @[a]]]

\* The stores append to the history first and write second; the write
\* panics when the bytes are not inside Memory.
storeWord(cpu, address, value) ==
    IF ~checkMemoryAccess(cpu, address) THEN cpu
    ELSE LET logged == [cpu EXCEPT !.MemoryHistory =
                           Prepend(HistoryEntry("Stored word (%d) to address %d",
                                                value, address), @)]
         IN  IF ~InMemory(cpu, address, 4) THEN [logged EXCEPT !.panic = TRUE]
             ELSE [logged EXCEPT !.Memory =
                      [a \in DOMAIN @ |->
                          IF a >= address /\ a <= address + 3
                          THEN ByteOf(value, a - address) ELSE @[a]]]

storeHalf(cpu, address, value) ==
    IF ~checkMemoryAccess(cpu, address) THEN cpu
    ELSE LET logged == [cpu EXCEPT !.MemoryHistory =
                           Prepend(HistoryEntry("Stored half-word (%d) to address %d",
                                                value, address), @)]
         IN  IF ~InMemory(cpu, address, 2) THEN [logged EXCEPT !.panic = TRUE]
             ELSE [logged EXCEPT !.Memory =
                      [a \in DOMAIN @ |->
                          IF a >= address /\ a <= address + 1
                          THEN ByteOf(value, a - address) ELSE @[a]]]

storeByte(cpu, address, value) ==
    IF ~checkMemoryAccess(cpu, address) THEN cpu
    ELSE LET logged == [cpu EXCEPT !.MemoryHistory =
                           Prepend(HistoryEntry("Stored byte (%d) to address %d",
                                                value, address), @)]
         IN  IF ~InMemory(cpu, address, 1) THEN [logged EXCEPT !.panic = TRUE]
             ELSE [logged EXCEPT !.Memory[address] = ByteOf(value, 0)]

instrToStoreOp(op, cpu, rs1_val, rs2_val, imm) ==
    CASE op = "sw" -> storeWord(cpu, Add32(imm, rs1_val), rs2_val)
      [] op = "sh" -> storeHalf(cpu, Add32(imm, rs1_val), rs2_val)
      [] op = "sb" -> storeByte(cpu, Add32(imm, rs1_val), rs2_val)

\* ------------------------------------------------------------------------
\* Branch and jump targets
\* ------------------------------------------------------------------------

\* immOrLabel: a literal displacement first, a label second; [ok, imm] with
\* ok FALSE for the "Invalid Jump" panic and imm the low 32 bits.
immOrLabel(cpu, destination) ==
    IF Atoi(destination).ok THEN [ok |-> TRUE, imm |-> Atoi(destination).val]
    ELSE IF destination \in DOMAIN cpu.Labels
    THEN [ok |-> TRUE, imm |-> Sub32(cpu.Labels[destination], cpu.PC)]
    ELSE [ok |-> FALSE, imm |-> 0]

\* cpu.PC += uint32(immOrLabel(cpu, destination))
JumpTo(cpu, destination) ==
    IF immOrLabel(cpu, destination).ok
    THEN [cpu EXCEPT !.PC = Add32(@, immOrLabel(cpu, destination).imm)]
    ELSE [cpu EXCEPT !.panic = TRUE]

\* trueOrNext never taking the branch.
trueOrNextFallsThrough(cpu, valid, destination) ==
    [cpu EXCEPT !.PC = Add32(@, 4)]

trueOrNext(cpu, valid, destination) ==
    IF valid THEN JumpTo(cpu, destination)
    ELSE [cpu EXCEPT !.PC = Add32(@, 4)]

\* ------------------------------------------------------------------------
\* Operate
\* ------------------------------------------------------------------------

\* NextPC leaving PC where it is.
NextPCStays(cpu) == cpu

NextPC(cpu) == [cpu EXCEPT !.PC = Add32(@, 4)]

SetRegister(cpu, rd, value) == [cpu EXCEPT !.Registers[rd] = value]

\* NoOp.Operate leaving PC where it is.
OperateNoOpStays(instr, cpu) == cpu

OperateNoOp(instr, cpu) == NextPC(cpu)

OperateThreePt(instr, cpu) ==
    LET a == cpu.Registers[instr.rs1]
        b == cpu.Registers[instr.rs2]
    IN  IF instr.rd # 0
        THEN IF ThreePtOpPanics(instr.op, a, b) THEN [cpu EXCEPT !.panic = TRUE]
             ELSE NextPC(SetRegister(cpu, instr.rd, instrToThreePtOp(instr.op, a, b)))
        ELSE NextPC(cpu)

OperateThreePtImm(instr, cpu) ==
    LET a == cpu.Registers[instr.rs1]
    IN  IF instr.rd # 0
        THEN IF ThreePtImmOpPanics(instr.op, a, instr.imm)
             THEN [cpu EXCEPT !.panic = TRUE]
             ELSE NextPC(SetRegister(cpu, instr.rd,
                                     instrToThreePtImmOp(instr.op, a, instr.imm)))
        ELSE NextPC(cpu)

\* OperateLoadImm without its rd # 0 guard.
OperateLoadImmUnguarded(instr, cpu) ==
    NextPC(SetRegister(cpu, instr.rd, instrToLoadImmOp(instr.op, cpu, instr.imm)))

OperateLoadImm(instr, cpu) ==
    IF instr.rd # 0
    THEN NextPC(SetRegister(cpu, instr.rd, instrToLoadImmOp(instr.op, cpu, instr.imm)))
    ELSE NextPC(cpu)

OperateLoad(instr, cpu) ==
    IF instr.rd # 0
    THEN LET r == instrToLoadOp(instr.op, cpu, cpu.Registers[instr.rs1], instr.imm)
         IN  IF r.cpu.panic THEN r.cpu
             ELSE NextPC(SetRegister(r.cpu, instr.rd, r.value))
    ELSE NextPC(cpu)

OperateStore(instr, cpu) ==
    LET r == instrToStoreOp(instr.op, cpu, cpu.Registers[instr.rs1],
                            cpu.Registers[instr.rs2], instr.imm)
    IN  IF r.panic THEN r ELSE NextPC(r)

OperateBranchThree(instr, cpu) ==
    trueOrNext(cpu,
               BranchThreeCond(instr.op, cpu.Registers[instr.rs1],
                               cpu.Registers[instr.rs2]),
               instr.destination)

OperateBranchTwo(instr, cpu) ==
    trueOrNext(cpu, BranchTwoCond(instr.op, cpu.Registers[instr.rs1]),
               instr.destination)

OperateJump(instr, cpu) == JumpTo(cpu, instr.destination)

\* The link register is written before the target is resolved.
\* JumpAndLinkInstr.Operate without the write of the link register.
OperateJumpAndLinkNoLink(instr, cpu) == JumpTo(cpu, instr.destination)

OperateJumpAndLink(instr, cpu) ==
    JumpTo(IF instr.rd # 0 THEN SetRegister(cpu, instr.rd, Add32(cpu.PC, 4))
           ELSE cpu,
           instr.destination)

\* rs1 is read after rd is written.
OperateJumpAndLinkR(instr, cpu) ==
    LET linked == IF instr.rd # 0
                  THEN SetRegister(cpu, instr.rd, Add32(cpu.PC, 4)) ELSE cpu
    IN  [linked EXCEPT !.PC = Add32(instr.imm, linked.Registers[instr.rs1])]

OperateSet(instr, cpu) ==
    IF instr.rd # 0
    THEN NextPC(SetRegister(cpu, instr.rd,
                            IF instrToSetOp(instr.op, cpu.Registers[instr.rs1],
                                            cpu.Registers[instr.rs2])
                            THEN 1 ELSE 0))
    ELSE NextPC(cpu)

OperateSetImm(instr, cpu) ==
    IF instr.rd # 0
    THEN NextPC(SetRegister(cpu, instr.rd,
                            IF instrToSetImmOp(instr.op, cpu.Registers[instr.rs1],
                                               instr.imm)
                            THEN 1 ELSE 0))
    ELSE NextPC(cpu)

\* instr.Operate(cpu), dispatched on the variant; a decoder panic leaves the
\* cpu as it was.
Operate(instr, cpu) ==
    CASE instr.type = "Panic"             -> [cpu EXCEPT !.panic = TRUE]
      [] instr.type = "NoOp"              -> OperateNoOp(instr, cpu)
      [] instr.type = "InstrThreePt"      -> OperateThreePt(instr, cpu)
      [] instr.type = "InstrThreePtImm"   -> OperateThreePtImm(instr, cpu)
      [] instr.type = "LoadImmInstr"      -> OperateLoadImm(instr, cpu)
      [] instr.type = "LoadInstr"         -> OperateLoad(instr, cpu)
      [] instr.type = "StoreInstr"        -> OperateStore(instr, cpu)
      [] instr.type = "BranchThreeInstr"  -> OperateBranchThree(instr, cpu)
      [] instr.type = "BranchTwoInstr"    -> OperateBranchTwo(instr, cpu)
      [] instr.type = "JumpInstr"         -> OperateJump(instr, cpu)
      [] instr.type = "JumpAndLinkInstr"  -> OperateJumpAndLink(instr, cpu)
      [] instr.type = "JumpAndLinkRInstr" -> OperateJumpAndLinkR(instr, cpu)
      [] instr.type = "SetInstr"          -> OperateSet(instr, cpu)
      [] instr.type = "SetImmInstr"       -> OperateSetImm(instr, cpu)

\* ------------------------------------------------------------------------
\* The CPU and its entry points
\* ------------------------------------------------------------------------

VARIABLES
    PC,             \* cpu.PC
    Registers,      \* cpu.Registers, a function on 0..31
    Memory,         \* cpu.Memory, a function on 0..MemorySize-1
    instructions,   \* cpu.instructions
    Done,           \* cpu.Done
    Labels,         \* cpu.Labels, a function on the names it holds
    MemoryHistory,  \* cpu.MemoryHistory, most recent first
    entryPoint,     \* cpu.entryPoint
    panicked,       \* a panic has unwound the caller: the process is gone
    running,        \* control is inside RunProgram's loop
    loads,          \* LoadInstructions calls so far
    steps           \* RunNextInstruction calls so far

vars == << PC, Registers, Memory, instructions, Done, Labels, MemoryHistory,
           entryPoint, panicked, running, loads, steps >>

\* The programs the shell hands to LoadInstructions.
Programs ==
    { << >>,
      << "li x1, 4", "sb x1, 0(x0)" >>,
      << "li x1, 16", "sh x1, 0(x0)" >>,
      << "li x1, 16", "sw x1, 4(x0)", "lw x3, 4(x0)" >>,
      << "main:", "li x0, 100" >>,
      << "addi x0, x2, 5", "add x0, x2, x2", "lw x0, 0(x0)", "slt x0, x0, x2" >>,
      << "jal x0, main" >>,
      << "sw x2, 13(x0)", "lw x3, -2(sp)", "sb x2, 0(sp)" >>,
      << "sb x2, -1(x0)" >>,
      << "lw x3, -4(x0)" >>,
      << "addi x1, x0, -2", "sw x1, 0(x0)", "lw x5, 0(x0)", "lb x3, 0(x0)",
         "lh x4, 0(x0)" >>,
      << "li x1, 513", "sb x1, 15(x0)", "lbu x3, 15(x0)" >>,
      << "li x1, 513", "sh x1, 14(x0)", "lhu x3, 14(x0)" >>,
      << "j main" >>,
      << "a:", "a:", "j a" >>,
      << "addi x5, x5, 1" >>,
      << "loop:", "beq x2, x0, loop", "bne x0, x0, nowhere", "beq x0, x0, loop" >>,
      << "8:", "beq x0, x0, 8" >>,
      << "", "frobnicate x1", "add x1, x2", "li x1, -5", "jalr x1, x0, 16" >>,
      << "j 2", "jr x0" >>,
      << "call f", "j 12", "f:", "jr ra" >>,
      << "8:", "call 8" >>,
      << "call g" >> }

\* NewCPU(MemorySize)
Init ==
    /\ PC = 16
    /\ Registers = [i \in 0..31 |-> IF i = abiToRegister["sp"] THEN MemorySize ELSE 0]
    /\ Memory = [a \in 0..(MemorySize - 1) |-> 0]
    /\ instructions = << >>
    /\ Done = FALSE
    /\ Labels = [l \in {} |-> 0]
    /\ MemoryHistory = << >>
    /\ entryPoint = ""
    /\ panicked = FALSE
    /\ running = FALSE
    /\ loads = 0
    /\ steps = 0

\* cpu.Labels[label] = address
SetLabel(labels, label, address) ==
    [l \in DOMAIN labels \cup {label} |-> IF l = label THEN address ELSE labels[l]]

\* LabelAddress giving the label line's own slot.
LabelAddressOwnSlot(i) == (i * 4) + 16

\* The address LoadInstructions gives the label on line i (0-based).
LabelAddress(i) == (i * 4) + 16 + 4

\* The lines of the programs, and what the two patterns of LoadInstructions
\* and the decoder yield on each of them (all three are functions of the
\* line alone, tabulated once).
ProgramLines == UNION {{instrs[i] : i \in 1..Len(instrs)} : instrs \in Programs}

labelMatch == [instr \in ProgramLines |-> labelRe(instr)]

globalMatch == [instr \in ProgramLines |-> globalRe(instr)]

DecodedInstr == [instr_str_raw \in ProgramLines |-> DecodeInstr(instr_str_raw)]

\* The loop of LoadInstructions from line i (0-based) on: [Labels, entryPoint].
RECURSIVE LoadScan(_, _, _, _)
LoadScan(instrs, i, labels, entry) ==
    IF i >= Len(instrs) THEN [Labels |-> labels, entryPoint |-> entry]
    ELSE IF labelMatch[instrs[i + 1]] # << >>
    THEN LoadScan(instrs, i + 1,
                  SetLabel(labels, labelMatch[instrs[i + 1]][2], LabelAddress(i)),
                  entry)
    ELSE IF globalMatch[instrs[i + 1]] # << >>
    THEN LoadScan(instrs, i + 1, labels, globalMatch[instrs[i + 1]][2])
    ELSE LoadScan(instrs, i + 1, labels, entry)

\* InstrNum with the subtraction and division in signed integers.
InstrNumSigned(pc) == (pc - 16) \div 4

\* int((cpu.PC - 16) / 4), the subtraction and division in uint32.
InstrNum(pc) ==
    LET u == Sub32(pc, 16)
    IN  IF u >= 0 THEN u \div 4 ELSE ((u - MinInt32) \div 4) + 2 ^ 29

\* LoadInstructions also putting PC back to 16.
LoadInstructionsRewinds(instrs) ==
    /\ ~panicked /\ ~running
    /\ loads < MaxLoads
    /\ LET scan == LoadScan(instrs, 0, Labels, "")
       IN  /\ Labels' = scan.Labels
           /\ entryPoint' = scan.entryPoint
    /\ instructions' = instrs
    /\ PC' = 16
    /\ Done' = (Len(instrs) = 0)
    /\ loads' = loads + 1
    /\ UNCHANGED << Registers, Memory, MemoryHistory, panicked, running, steps >>

\* cpu.Labels is never cleared: the scan adds to the table it finds.
LoadInstructions(instrs) ==
    /\ ~panicked /\ ~running
    /\ loads < MaxLoads
    /\ LET scan == LoadScan(instrs, 0, Labels, "")
       IN  /\ Labels' = scan.Labels
           /\ entryPoint' = scan.entryPoint
    /\ instructions' = instrs
    /\ Done' = (InstrNum(PC) > Len(instrs) - 1)
    /\ loads' = loads + 1
    /\ UNCHANGED << PC, Registers, Memory, MemoryHistory, panicked, running, steps >>

\* The cpu record an instruction operates on.
CPU ==
    [PC |-> PC, Registers |-> Registers, Memory |-> Memory,
     MemoryHistory |-> MemoryHistory, Labels |-> Labels, panic |-> FALSE]

\* Whether RunNextInstruction fetches a line at pc, or only sets Done.
Fetches(pc, instrs) == ~ULt32(pc, 16) /\ ~(InstrNum(pc) > Len(instrs) - 1)

\* The line RunNextInstruction decodes.
Fetched == instructions[InstrNum(PC) + 1]

\* RunNextInstruction moving PC on when there is no line to fetch.
RunNextInstructionBodyAdvances ==
    IF ~Fetches(PC, instructions)
    THEN /\ Done' = TRUE
         /\ PC' = Add32(PC, 4)
         /\ UNCHANGED << Registers, Memory, MemoryHistory, panicked >>
    ELSE LET Becomes(cpu) == /\ PC' = cpu.PC
                             /\ Registers' = cpu.Registers
                             /\ Memory' = cpu.Memory
                             /\ MemoryHistory' = cpu.MemoryHistory
                             /\ panicked' = cpu.panic
         IN  /\ Becomes(Operate(DecodedInstr[Fetched], CPU))
             /\ UNCHANGED Done

\* The body of RunNextInstruction.
RunNextInstructionBody ==
    IF ~Fetches(PC, instructions)
    THEN /\ Done' = TRUE
         /\ UNCHANGED << PC, Registers, Memory, MemoryHistory, panicked >>
    ELSE LET Becomes(cpu) == /\ PC' = cpu.PC
                             /\ Registers' = cpu.Registers
                             /\ Memory' = cpu.Memory
                             /\ MemoryHistory' = cpu.MemoryHistory
                             /\ panicked' = cpu.panic
         IN  /\ Becomes(Operate(DecodedInstr[Fetched], CPU))
             /\ UNCHANGED Done

\* A call of RunNextInstruction by the shell.
RunNextInstruction ==
    /\ ~panicked /\ ~running
    /\ steps < MaxSteps
    /\ RunNextInstructionBody
    /\ steps' = steps + 1
    /\ UNCHANGED << instructions, Labels, entryPoint, running, loads >>

\* RunProgram: the call, one iteration of its loop, and its return.
RunProgramCall ==
    /\ ~panicked /\ ~running
    /\ running' = TRUE
    /\ UNCHANGED << PC, Registers, Memory, instructions, Done, Labels,
                    MemoryHistory, entryPoint, panicked, loads, steps >>

RunProgramIterate ==
    /\ ~panicked /\ running
    /\ ~Done
    /\ steps < MaxSteps
    /\ RunNextInstructionBody
    /\ steps' = steps + 1
    /\ UNCHANGED << instructions, Labels, entryPoint, running, loads >>

\* RunProgramReset without the assignment to PC.
RunProgramResetKeepsPC ==
    [PC |-> PC, Done |-> FALSE, Registers |-> Registers, Memory |-> Memory]

\* RunProgramReset also restoring the registers and memory of NewCPU.
RunProgramResetClears ==
    [PC |-> 16, Done |-> FALSE,
     Registers |-> [i \in 0..31 |-> IF i = abiToRegister["sp"] THEN MemorySize ELSE 0],
     Memory |-> [a \in 0..(MemorySize - 1) |-> 0]]

\* What RunProgram leaves when its loop ends: PC and Done are assigned,
\* registers and memory are not touched.
RunProgramReset ==
    [PC |-> 16, Done |-> FALSE, Registers |-> Registers, Memory |-> Memory]

RunProgramReturn ==
    /\ ~panicked /\ running
    /\ Done
    /\ PC' = RunProgramReset.PC
    /\ Done' = RunProgramReset.Done
    /\ Registers' = RunProgramReset.Registers
    /\ Memory' = RunProgramReset.Memory
    /\ running' = FALSE
    /\ UNCHANGED << instructions, Labels, MemoryHistory, entryPoint, panicked,
                    loads, steps >>

Next ==
    \/ \E instrs \in Programs : LoadInstructions(instrs)
    \/ RunNextInstruction
    \/ RunProgramCall
    \/ RunProgramIterate
    \/ RunProgramReturn

Spec == Init /\ [][Next]_vars

\* ------------------------------------------------------------------------
\* Vocabulary of the properties
\* ------------------------------------------------------------------------

\* This step is a RunNextInstruction call (by the shell or by RunProgram).
Stepping == steps' = steps + 1

\* This step is a RunNextInstruction call that fetches and operates a line.
Executing == Stepping /\ Fetches(PC, instructions)

\* The instruction an Executing step operates.
Current == DecodedInstr[Fetched]

IsLoad(op) == Current.type = "LoadInstr" /\ Current.op = op

IsStore(op) == Current.type = "StoreInstr" /\ Current.op = op

\* rs1 + imm of the current load or store, modulo 2^32.
EffectiveAddress == Add32(Registers[Current.rs1], Current.imm)

\* The bytes address..address+width-1 all lie inside memory.
BytesInside(address, width) == address >= 0 /\ address <= MemorySize - width

AccessWidth(op) ==
    CASE op \in {"lw", "sw"} -> 4
      [] op \in {"lh", "lhu", "sh"} -> 2
      [] op \in {"lb", "lbu", "sb"} -> 1

\* v modulo m, for m a power of two up to 2^31.
LowBits(v, m) == IF v >= 0 THEN v % m ELSE (v - MinInt32) % m

\* The width of the store a history entry records, 0 for a load.
StoredWidth(entry) ==
    CASE entry.text = "Stored word (%d) to address %d" -> 4
      [] entry.text = "Stored half-word (%d) to address %d" -> 2
      [] entry.text = "Stored byte (%d) to address %d" -> 1
      [] OTHER -> 0

\* The most recent store in the history that overlaps address..address+width-1,
\* as a one-element or empty set.
LatestStoreOver(address, width) ==
    LET over == {i \in 1..Len(MemoryHistory) :
                    /\ StoredWidth(MemoryHistory[i]) > 0
                    /\ MemoryHistory[i].address < address + width
                    /\ address < MemoryHistory[i].address
                                 + StoredWidth(MemoryHistory[i])}
    IN  {MemoryHistory[i] : i \in {j \in over : \A k \in over : j <= k}}

\* The labels a program defines, and the last line (1-based) defining each.
DefinedLabels(instrs) ==
    {labelMatch[instrs[i]][2] : i \in {j \in 1..Len(instrs) : labelMatch[instrs[j]] # << >>}}

LastDefinition(instrs, label) ==
    CHOOSE i \in 1..Len(instrs) :
        /\ labelMatch[instrs[i]] # << >> /\ labelMatch[instrs[i]][2] = label
        /\ \A j \in (i + 1)..Len(instrs) :
              labelMatch[instrs[j]] = << >> \/ labelMatch[instrs[j]][2] # label

\* ------------------------------------------------------------------------
\* Properties
\* ------------------------------------------------------------------------

\* C1: register 0 reads as 0 in every reachable state, whatever instruction
\* named it as destination, and a load-immediate into a register 1..31 is
\* read back as the immediate written.
C1_RegisterZero ==
    /\ [](Registers[0] = 0)
    /\ [][(/\ Executing
           /\ Current.type = "LoadImmInstr" /\ Current.op = "li"
           /\ Current.rd \in 1..31)
          => Registers'[Current.rd] = Current.imm]_vars

\* C1 witness: "li x0, 100" of the label test has been executed, register 0
\* is 0 and register 1 still holds the 4 an earlier program wrote to it.
C1_Witness ==
    /\ instructions = << "main:", "li x0, 100" >>
    /\ PC = 24 /\ steps >= 2
    /\ Registers[0] = 0 /\ Registers[1] = 4

\* C2: a load or store whose accessed bytes do not all lie inside memory
\* completes without a panic, advances PC by 4, leaves memory unchanged
\* (store) or writes 0 to rd (load).
C2_OutOfBoundsIsNoOp ==
    [][(/\ Executing
        /\ Current.type \in {"LoadInstr", "StoreInstr"}
        /\ ~BytesInside(EffectiveAddress, AccessWidth(Current.op)))
       => /\ ~panicked'
          /\ PC' = Add32(PC, 4)
          /\ Current.type = "StoreInstr" => Memory' = Memory
          /\ Current.type = "LoadInstr" => Registers'[Current.rd] = 0]_vars

\* C3: sw of V to an address A with A..A+3 inside memory lays V out
\* little-endian in those four bytes and changes no other byte; lw from A
\* into rd # 0, when the most recent store overlapping A..A+3 was a word
\* store of V to A, leaves rd equal to V.
C3_WordRoundTrip ==
    [][Executing =>
        /\ (IsStore("sw") /\ BytesInside(EffectiveAddress, 4))
           => Memory' = [a \in 0..(MemorySize - 1) |->
                           IF a >= EffectiveAddress /\ a <= EffectiveAddress + 3
                           THEN LowBits(Sra32(Registers[Current.rs2],
                                              8 * (a - EffectiveAddress)), 256)
                           ELSE Memory[a]]
        /\ (IsLoad("lw") /\ Current.rd # 0 /\ BytesInside(EffectiveAddress, 4))
           => \A e \in LatestStoreOver(EffectiveAddress, 4) :
                 (StoredWidth(e) = 4 /\ e.address = EffectiveAddress)
                 => Registers'[Current.rd] = e.value]_vars

\* C3 witness: the load test has run its three lines: 16 was stored at 4 and
\* loaded back into x3.
C3_Witness ==
    /\ instructions = << "li x1, 16", "sw x1, 4(x0)", "lw x3, 4(x0)" >>
    /\ PC = 28
    /\ Len(MemoryHistory) >= 2
    /\ MemoryHistory[1] = HistoryEntry("Loaded word (%d) from  %d", 16, 4)
    /\ MemoryHistory[2] = HistoryEntry("Stored word (%d) to address %d", 16, 4)
    /\ Registers[3] = 16
    /\ Memory[4] = 16 /\ Memory[5] = 0 /\ Memory[6] = 0 /\ Memory[7] = 0

\* C4: sb stores V mod 2^8 at any A with 0 <= A < memory size, sh stores
\* V mod 2^16 little-endian at any A with A + 2 <= memory size, each
\* changing only the addressed bytes; lbu and lhu at such an A read the
\* stored bytes back into rd.
C4_NarrowRoundTrip ==
    [][Executing =>
        /\ (IsStore("sb") /\ BytesInside(EffectiveAddress, 1))
           => Memory' = [Memory EXCEPT
                           ![EffectiveAddress] = LowBits(Registers[Current.rs2], 256)]
        /\ (IsStore("sh") /\ BytesInside(EffectiveAddress, 2))
           => Memory' = [Memory EXCEPT
                           ![EffectiveAddress] = LowBits(Registers[Current.rs2], 256),
                           ![EffectiveAddress + 1] =
                               LowBits(Registers[Current.rs2], 65536) \div 256]
        /\ (IsLoad("lbu") /\ Current.rd # 0 /\ BytesInside(EffectiveAddress, 1))
           => Registers'[Current.rd] = Memory[EffectiveAddress]
        /\ (IsLoad("lhu") /\ Current.rd # 0 /\ BytesInside(EffectiveAddress, 2))
           => Registers'[Current.rd] =
                 Memory[EffectiveAddress] + 256 * Memory[EffectiveAddress + 1]]_vars

\* C5: lb and lh sign-extend the byte or half-word they read, lbu and lhu
\* zero-extend it (at an address where the bounds check accepts the access).
C5_SignExtension ==
    [][(Executing /\ Current.type = "LoadInstr" /\ Current.rd # 0) =>
        LET A == EffectiveAddress
            b == Memory[A]
            h == Memory[A] + 256 * Memory[A + 1]
        IN  /\ (IsLoad("lb") /\ BytesInside(A, 4))
               => Registers'[Current.rd] = IF b >= 128 THEN b - 256 ELSE b
            /\ (IsLoad("lbu") /\ BytesInside(A, 4))
               => Registers'[Current.rd] = b
            /\ (IsLoad("lh") /\ BytesInside(A, 4))
               => Registers'[Current.rd] = IF h >= 32768 THEN h - 65536 ELSE h
            /\ (IsLoad("lhu") /\ BytesInside(A, 4))
               => Registers'[Current.rd] = h]_vars

\* C6: after a load the label table holds exactly the labels the loaded
\* program defines.
C6_LabelsOfLoadedProgram == DOMAIN Labels = DefinedLabels(instructions)

\* C7: the label defined on line i (0-based) of the loaded program resolves
\* to 4 * i + 16 + 4; of several definitions of a name the last one counts.
C7_LabelAddresses ==
    \A label \in DefinedLabels(instructions) :
        /\ label \in DOMAIN Labels
        /\ Labels[label] = 4 * (LastDefinition(instructions, label) - 1) + 16 + 4

\* C7 witness: a program defining "a" on lines 0 and 1 is loaded and "a"
\* resolves to the slot after line 1.
C7_Witness ==
    /\ instructions = << "a:", "a:", "j a" >>
    /\ "a" \in DOMAIN Labels /\ Labels["a"] = 24

\* C8: after a step that executes an instruction, Done is true exactly when
\* the new PC is below 16 or past the last line.
C8_DoneAfterStep ==
    [][(Executing /\ ~Done /\ ~panicked')
       => Done' = ~Fetches(PC', instructions)]_vars

\* C9: when RunProgram returns, PC is 16 and Done is false.
C9_RunLeavesReady ==
    [][(running /\ ~running') => (PC' = 16 /\ Done' = FALSE)]_vars

\* C9 witness: RunProgram has returned on the empty program (a load of it
\* alone leaves Done true).
C9_Witness ==
    /\ instructions = << >> /\ loads >= 1
    /\ ~running /\ ~panicked
    /\ PC = 16 /\ Done = FALSE

\* C10: entering and leaving RunProgram changes no register and no memory
\* byte, so a run starts from what the run before it left.
C10_RunKeepsState ==
    [][(running # running') => (Registers' = Registers /\ Memory' = Memory)]_vars

\* C10 witness: the one-line program incrementing x5 has run to completion
\* twice and x5 is 2.
C10_Witness ==
    /\ instructions = << "addi x5, x5, 1" >>
    /\ ~running /\ PC = 16 /\ Done = FALSE
    /\ steps = 4
    /\ Registers[5] = 2

\* C11: the first instruction a RunProgram call executes is line 0: when a
\* run is entered with an instruction to fetch, PC is 16.
C11_RunStartsAtFirstLine ==
    [][(~running /\ running' /\ ~Done' /\ Fetches(PC', instructions'))
       => PC' = 16]_vars

\* C12 (as stated): a step on "beq rs1, rs2, L" with L in the label table
\* leaves PC at L's address when the registers are equal and at PC + 4
\* otherwise, without a panic and without changing a register or a memory
\* byte.
C12_BeqToLabel ==
    [][(/\ Executing
        /\ Current.type = "BranchThreeInstr" /\ Current.op = "beq"
        /\ Current.destination \in DOMAIN Labels)
       => /\ ~panicked'
          /\ PC' = IF Registers[Current.rs1] = Registers[Current.rs2]
                   THEN Labels[Current.destination] ELSE Add32(PC, 4)
          /\ Registers' = Registers /\ Memory' = Memory]_vars

\* C12 (amended): the same for a label L whose name is not itself a base-10
\* integer literal (a literal is taken as a displacement before the label
\* table is consulted).
C12_BeqToNamedLabel ==
    [][(/\ Executing
        /\ Current.type = "BranchThreeInstr" /\ Current.op = "beq"
        /\ Current.destination \in DOMAIN Labels
        /\ ~Atoi(Current.destination).ok)
       => /\ ~panicked'
          /\ PC' = IF Registers[Current.rs1] = Registers[Current.rs2]
                   THEN Labels[Current.destination] ELSE Add32(PC, 4)
          /\ Registers' = Registers /\ Memory' = Memory]_vars

\* C12 witness: the branch program has been stepped through: the beq on
\* unequal registers fell through and the beq on equal registers at 28 went
\* back to the address 20 of "loop".
C12_Witness ==
    /\ instructions = << "loop:", "beq x2, x0, loop", "bne x0, x0, nowhere",
                         "beq x0, x0, loop" >>
    /\ steps = 4 /\ loads = 1
    /\ PC = 20 /\ Labels["loop"] = 20
    /\ ~panicked

\* The mnemonics the decoder knows, and the operand shape each requires.
KnownMnemonics ==
    threePtInstrTypes \cup threePtImmInstrTypes \cup loadImmInstrTypes
    \cup loadInstrTypes \cup storeInstrTypes \cup branchThreeInstrTypes
    \cup branchTwoInstrTypes \cup setInstrTypes \cup setImmInstrTypes
    \cup {"j", "call", "jr", "jal", "jalr", "mv"}

ShapeMatch(line) ==
    LET m == firstTokenRe(TrimSpace(line))
    IN  IF m \in threePtInstrTypes \cup threePtImmInstrTypes
                 \cup branchThreeInstrTypes \cup setInstrTypes
                 \cup setImmInstrTypes \cup {"jalr"}
        THEN threePtRe(TrimSpace(line))
        ELSE IF m \in loadImmInstrTypes \cup branchTwoInstrTypes \cup {"jal", "mv"}
        THEN twoPtImmRe(TrimSpace(line))
        ELSE IF m \in loadInstrTypes \cup storeInstrTypes
        THEN loadStoreRe(TrimSpace(line))
        ELSE jumpRe(TrimSpace(line))

\* The program lines whose mnemonic is unknown or whose operands do not
\* match the shape of their mnemonic.
UnrecognisedLines ==
    {l \in ProgramLines :
        \/ firstTokenRe(TrimSpace(l)) \notin KnownMnemonics
        \/ ShapeMatch(l) = << >>}

\* C13: a step on a line with an unknown mnemonic or with operands that do
\* not match the mnemonic's shape does not panic, advances PC by 4 and
\* changes no register, memory byte, label or history entry.
C13_UnrecognisedLineIsNoOp ==
    [][(Executing /\ Fetched \in UnrecognisedLines)
       => /\ ~panicked'
          /\ PC' = Add32(PC, 4)
          /\ Registers' = Registers /\ Memory' = Memory
          /\ Labels' = Labels /\ MemoryHistory' = MemoryHistory]_vars

\* C13 witness: a blank line, an unknown mnemonic, an add with two operands
\* and an li with a signed immediate have been stepped over on a fresh cpu.
C13_Witness ==
    /\ instructions = << "", "frobnicate x1", "add x1, x2", "li x1, -5",
                         "jalr x1, x0, 16" >>
    /\ {"", "frobnicate x1", "add x1, x2", "li x1, -5"} \subseteq UnrecognisedLines
    /\ steps = 4 /\ loads = 1
    /\ PC = 32 /\ ~panicked
    /\ Registers[1] = 0 /\ MemoryHistory = << >>

\* The well-formed jal and jalr lines of the programs with their operands:
\* "jal rd, target" and "jalr rd, rs1, imm" with valid register names and a
\* base-10 imm.
JalLines ==
    {l \in ProgramLines :
        /\ firstTokenRe(TrimSpace(l)) = "jal"
        /\ twoPtImmRe(TrimSpace(l)) # << >>
        /\ ValidRegister(twoPtImmRe(TrimSpace(l))[3])}

JalOperands ==
    [l \in JalLines |->
        [rd     |-> getRegisterNumber(twoPtImmRe(TrimSpace(l))[3]),
         target |-> twoPtImmRe(TrimSpace(l))[4]]]

JalrLines ==
    {l \in ProgramLines :
        /\ firstTokenRe(TrimSpace(l)) = "jalr"
        /\ threePtRe(TrimSpace(l)) # << >>
        /\ ValidRegister(threePtRe(TrimSpace(l))[3])
        /\ ValidRegister(threePtRe(TrimSpace(l))[4])
        /\ ValidImm(threePtRe(TrimSpace(l))[5])}

JalrOperands ==
    [l \in JalrLines |->
        [rd  |-> getRegisterNumber(threePtRe(TrimSpace(l))[3]),
         rs1 |-> getRegisterNumber(threePtRe(TrimSpace(l))[4]),
         imm |-> parseImm(threePtRe(TrimSpace(l))[5])]]

\* C14: a step on a well-formed jal at PC = A with a resolvable target does
\* not panic, leaves A + 4 in rd (rd # 0) and the target in PC; a step on a
\* well-formed jalr does not panic, leaves A + 4 in rd (rd # 0) and
\* rs1 + imm in PC.
C14_JumpAndLink ==
    [][Executing =>
        /\ (/\ Fetched \in JalLines
            /\ \/ Atoi(JalOperands[Fetched].target).ok
               \/ JalOperands[Fetched].target \in DOMAIN Labels)
           => /\ ~panicked'
              /\ JalOperands[Fetched].rd # 0
                 => Registers'[JalOperands[Fetched].rd] = Add32(PC, 4)
              /\ PC' = IF Atoi(JalOperands[Fetched].target).ok
                       THEN Add32(PC, Atoi(JalOperands[Fetched].target).val)
                       ELSE Labels[JalOperands[Fetched].target]
        /\ Fetched \in JalrLines
           => /\ ~panicked'
              /\ JalrOperands[Fetched].rd # 0
                 => Registers'[JalrOperands[Fetched].rd] = Add32(PC, 4)
              /\ PC' = Add32(Registers[JalrOperands[Fetched].rs1],
                             JalrOperands[Fetched].imm)]_vars

\* C15: a step on a branch or jump whose target is neither a base-10
\* integer literal nor a name in the label table panics, whether or not the
\* branch is taken.
C15_UnresolvedTargetIsFatal ==
    [][(/\ Executing
        /\ Current.type \in {"BranchThreeInstr", "BranchTwoInstr", "JumpInstr",
                              "JumpAndLinkInstr"}
        /\ ~Atoi(Current.destination).ok
        /\ Current.destination \notin DOMAIN Labels)
       => panicked']_vars

\* A whole line of the form  mnemonic rd, imm  with an optionally signed
\* decimal immediate: its mnemonic, register and immediate texts.
SignedImmText(s) ==
    FindStringSubmatch(s,
        << Plus(Word), Plus(Space), Plus(Word), Star(Space), One({","}),
           Star(Space), Opt({"-"}), Plus(Digit) >>,
        << <<1, 1>>, <<3, 3>>, <<7, 8>> >>)

\* The program lines that are a load-immediate of a signed 32-bit literal
\* into one of x1..x31.
LoadImmLines ==
    {l \in ProgramLines :
        /\ SignedImmText(TrimSpace(l)) # << >>
        /\ SignedImmText(TrimSpace(l))[1] = TrimSpace(l)
        /\ SignedImmText(TrimSpace(l))[2] \in loadImmInstrTypes
        /\ ValidRegister(SignedImmText(TrimSpace(l))[3])
        /\ getRegisterNumber(SignedImmText(TrimSpace(l))[3]) # 0
        /\ ValidImm(SignedImmText(TrimSpace(l))[4])}

LoadImmOperands ==
    [l \in LoadImmLines |->
        [op  |-> SignedImmText(TrimSpace(l))[2],
         rd  |-> getRegisterNumber(SignedImmText(TrimSpace(l))[3]),
         imm |-> parseImm(SignedImmText(TrimSpace(l))[4])]]

\* C16: a step on  li rd, imm  (rd in 1..31, imm any signed 32-bit decimal,
\* negative included) sets rd to imm and advances pc by 4; lui sets rd to
\* imm << 12 and auipc to pc + (imm << 12), modulo 2^32.
C16_LoadImmediate ==
    [][(Executing /\ Fetched \in LoadImmLines)
       => /\ ~panicked'
          /\ PC' = Add32(PC, 4)
          /\ Registers'[LoadImmOperands[Fetched].rd] =
                CASE LoadImmOperands[Fetched].op = "li" ->
                         LoadImmOperands[Fetched].imm
                  [] LoadImmOperands[Fetched].op = "lui" ->
                         Sll32(LoadImmOperands[Fetched].imm, 12)
                  [] LoadImmOperands[Fetched].op = "auipc" ->
                         Add32(PC, Sll32(LoadImmOperands[Fetched].imm, 12))]_vars

\* The loop of RunProgram goes round once more: RunProgramIterate seen
\* through its guard and the step counter. It is enabled exactly when
\* RunProgramIterate is, and RunProgramIterate is the only action that
\* counts a step during a run.
RunProgramLoops ==
    /\ ~panicked /\ running
    /\ ~Done
    /\ steps < MaxSteps
    /\ steps' = steps + 1

\* RunProgram is one uninterrupted call: once entered, its loop keeps
\* calling RunNextInstruction while Done is false, and then it returns.
LiveSpec == Spec /\ WF_steps(RunProgramLoops) /\ WF_vars(RunProgramReturn)

\* The loaded program has no line that decodes to a branch, a jump or a
\* decoding failure.
StraightLine ==
    \A i \in 1..Len(instructions) :
        DecodedInstr[instructions[i]].type \notin
            {"BranchThreeInstr", "BranchTwoInstr", "JumpInstr", "JumpAndLinkInstr",
             "JumpAndLinkRInstr", "Panic"}

\* The RunNextInstruction calls a run of a straight-line program still has
\* to make before its loop ends.
Remaining ==
    IF Done THEN 0
    ELSE IF ~Fetches(PC, instructions) THEN 1
    ELSE Len(instructions) - InstrNum(PC) + 1

C18_PCAligned == (loads >= 1) => (PC % 4 = 0)

\* C19: right after LoadInstructions, Done is true exactly when PC is below
\* 16 or its line index (PC - 16) / 4 is past the last line of the loaded
\* program (a PC of 2^31 or more, held as a negative number, always is);
\* on a fresh engine Done after the load is true iff the program is empty.
C19_DoneAfterLoad ==
    [][(loads' = loads + 1)
       => /\ Done' = \/ PC' \in 0..15
                     \/ PC' < 0
                     \/ (PC' >= 16 /\ (PC' - 16) \div 4 >= Len(instructions'))
          /\ (loads = 0 /\ steps = 0) => (Done' = (instructions' = << >>))]_vars

\* A program is loaded while PC is 0, where  j 2 / jr x0  left it: Done is
\* true although the program has a line.
C19_Witness ==
    /\ instructions = << "addi x5, x5, 1" >>
    /\ loads = 2 /\ steps = 3
    /\ PC = 0 /\ Done
    /\ ~running /\ ~panicked

\* C20: when PC is within the bounds of the program being loaded,
\* LoadInstructions leaves PC, the registers, the memory and the access
\* history as they were and Done false, so the next step executes the line
\* of the new text at that PC.
C20_LoadKeepsState ==
    [][(/\ loads' = loads + 1
        /\ PC >= 16 /\ (PC - 16) \div 4 < Len(instructions'))
       => /\ PC' = PC
          /\ Registers' = Registers
          /\ Memory' = Memory
          /\ MemoryHistory' = MemoryHistory
          /\ ~Done']_vars

\* li x1, 4  was executed, a second program was loaded with PC = 20, and the
\* next step executed its second line  sw x1, 4(x0)  with the old x1.
C20_Witness ==
    /\ instructions = << "li x1, 16", "sw x1, 4(x0)", "lw x3, 4(x0)" >>
    /\ loads = 2 /\ steps = 2
    /\ PC = 24 /\ ~panicked
    /\ Registers[1] = 4 /\ Memory[4] = 4
    /\ Len(MemoryHistory) = 1

\* The program lines that are a  call  with a target, and their targets.
CallLines ==
    {l \in ProgramLines :
        firstTokenRe(TrimSpace(l)) = "call" /\ jumpRe(TrimSpace(l)) # << >>}

CallTarget == [l \in CallLines |-> jumpRe(TrimSpace(l))[3]]

\* The program lines that are a  jr  through a register, and the register.
JrLines ==
    {l \in ProgramLines :
        /\ firstTokenRe(TrimSpace(l)) = "jr"
        /\ jumpRe(TrimSpace(l)) # << >>
        /\ ValidRegister(jumpRe(TrimSpace(l))[3])}

JrRegister == [l \in JrLines |-> getRegisterNumber(jumpRe(TrimSpace(l))[3])]

\* C21 as stated: a step on  call L  at PC = A, L in the label table, writes
\* A + 4 to ra and sets PC to the address of L; a step on  jr r  sets PC to
\* the value of r, which is A + 4 when r is ra and ra still holds the link,
\* and changes no register.
C21_CallReturn ==
    [][Executing =>
        /\ (Fetched \in CallLines /\ CallTarget[Fetched] \in DOMAIN Labels)
              => /\ ~panicked'
                 /\ Registers' = [Registers EXCEPT ![1] = Add32(PC, 4)]
                 /\ PC' = Labels[CallTarget[Fetched]]
        /\ Fetched \in JrLines
              => /\ ~panicked'
                 /\ PC' = Registers[JrRegister[Fetched]]
                 /\ Registers' = Registers]_vars

\* C21 for labels that are not integer literals: the same, for a  call L
\* whose L is in the label table and does not parse as a base-10 integer.
C21_CallReturnNamed ==
    [][Executing =>
        /\ (/\ Fetched \in CallLines
            /\ CallTarget[Fetched] \in DOMAIN Labels
            /\ ~Atoi(CallTarget[Fetched]).ok)
              => /\ ~panicked'
                 /\ Registers' = [Registers EXCEPT ![1] = Add32(PC, 4)]
                 /\ PC' = Labels[CallTarget[Fetched]]
        /\ Fetched \in JrLines
              => /\ ~panicked'
                 /\ PC' = Registers[JrRegister[Fetched]]
                 /\ Registers' = Registers]_vars

\* call f  at 16 went to f, the line at 28, with ra = 20, and  jr ra  there
\* came back to 20, the line after the call.
C21_Witness ==
    /\ instructions = << "call f", "j 12", "f:", "jr ra" >>
    /\ loads = 1 /\ steps = 2
    /\ Labels["f"] = 28
    /\ PC = 20 /\ Registers[1] = 20
    /\ ~panicked /\ ~Done

\* PC is below 16, or its line index is past the last line of the program
\* (a PC of 2^31 or more, held as a negative number, always is).
OutsideProgram ==
    \/ PC \in 0..15
    \/ PC < 0
    \/ (PC >= 16 /\ (PC - 16) \div 4 >= Len(instructions))

\* C22: a RunNextInstruction call made while PC is below 16 or past the
\* last line executes nothing: it sets Done and leaves PC, the registers,
\* the memory, the labels, the history and the program as they were, so a
\* repeated call ends in the same state.
C22_StepOutsideProgram ==
    [][(Stepping /\ OutsideProgram)
       => /\ Done'
          /\ ~panicked'
          /\ PC' = PC
          /\ Registers' = Registers
          /\ Memory' = Memory
          /\ Labels' = Labels
          /\ MemoryHistory' = MemoryHistory
          /\ instructions' = instructions]_vars

\* addi x5, x5, 1  was executed once and two more calls were made at
\* PC = 20, past the only line: x5 is still 1 and PC still 20.
C22_Witness ==
    /\ instructions = << "addi x5, x5, 1" >>
    /\ loads = 1 /\ steps = 3
    /\ OutsideProgram
    /\ PC = 20 /\ Done
    /\ Registers[5] = 1
    /\ ~running /\ ~panicked

\* This step operates a store, or a load into a register other than x0:
\* the instructions that call one of the memory access functions.
MemoryAccess ==
    /\ Executing
    /\ \/ Current.type = "StoreInstr"
       \/ (Current.type = "LoadInstr" /\ Current.rd # 0)

\* The address of the access passes the bounds check of the code.
Accepted ==
    /\ Add32(EffectiveAddress, 4) >= 0
    /\ Add32(EffectiveAddress, 4) <= MemorySize

\* The history entry is one that the current instruction writes.
DescribesAccess(entry) ==
    /\ entry.address = EffectiveAddress
    /\ entry.text \in
          IF Current.type = "StoreInstr"
          THEN {"Stored word (%d) to address %d",
                "Stored half-word (%d) to address %d",
                "Stored byte (%d) to address %d"}
          ELSE {"Loaded word (%d) from  %d", "Loaded half (%d) from  %d",
                "Loaded byte (%d) from  %d"}

C24_FatalStepIsAtomic ==
    [][(Stepping /\ panicked')
       => (PC' = PC /\ Registers' = Registers /\ Memory' = Memory)]_vars

====
